---- MODULE Spec2Model ----
(***************************************************************************)
(* A model of asciicast (src/asciicast/asciicast.py): the terminal session *)
(* recorder (AsciicastRecorder.record), the player (AsciicastPlayer) and   *)
(* the `info` command of main(); of the watch loop of fetcher              *)
(* (src/fetcher/fetcher.py, watch_single_url); and of the history store    *)
(* and the monitor loop of clipulse (src/clipulse/clipulse.py).            *)
(*                                                                         *)
(* Times are integers in milliseconds; a playback speed is a rational      *)
(* <<numerator, denominator>>; a chunk is a sequence of bytes and a text a *)
(* sequence of code points.                                                *)
(***************************************************************************)
EXTENDS Integers, Sequences, FiniteSets, TLC

\* ------------------------------------------------------------------ bounds
\* Chunks the user types, and chunks the child writes, in one session.
MaxChunks == 1
\* Elements of the events array of a recording file given to play / info.
MaxEvents == 2
\* Iterations of the loop of watch_single_url in one run.
MaxTries == 3
\* Minutes that pass while the clipboard is monitored.
MaxMinutes == 2

VARIABLES
    cmd,         \* the command main() dispatches on: "rec", "play", "info"
    termOut,     \* what has been written to the real terminal, in order
    exitStatus,  \* the process's exit status, -1 while it runs
    fault,       \* the exception that left main() unhandled, "none" otherwise
    \* ---- rec
    rpc,         \* the position of record()
    shellArg,    \* args.shell: "none" or a path
    environ,     \* os.environ: [SHELL, TERM], "none" for an unset name
    winsize,     \* the terminal's size: <<columns, lines>>
    setback,     \* by how many ms the system's clock is set back in the run
    orphan,      \* the shell leaves a process behind that holds the pty
                 \* slave open after the shell has exited
    shell,       \* record()'s local `shell`
    tty_attr,    \* the controlling terminal's attributes
    old_tty,     \* record()'s local `old_tty`, "unbound" before line 34
    master,      \* the pty master descriptor: "unbound", "open", "closed"
    slave,       \* the pty slave descriptor in the parent, likewise
    child,       \* the shell process: "none", "running", "exited"
    stdinBuf,    \* chunks typed and not yet read
    stdinEof,    \* the terminal input is at end of stream
    ptyBuf,      \* chunks the child wrote and the master has not yet read
    typed,       \* every chunk the user typed, in order
    childOut,    \* every chunk the child wrote, in order
    ready,       \* select()'s first result
    data,        \* the local `data` of the loop body
    events,      \* self.events
    clock,       \* what time.time() last returned
    start_time,  \* self.start_time
    header,      \* record()'s local `header`
    outFile,     \* the file at self.output_file
    exc,         \* the exception propagating in record(), "none" otherwise
    ptyIn,       \* chunks written to the pty master, in order
    restored,    \* line 119 has run
    transport,   \* the loop was left by `except OSError: break`; its
                 \* value is the number of events appended by then, else -1
    spawnFailed, \* subprocess.Popen raised
    interrupts,  \* a KeyboardInterrupt was delivered to record()
    again,       \* record() was called again on the same AsciicastRecorder
    \* ---- play, info
    inFile,      \* the file at args.input
    speed,       \* args.speed, a rational <<numerator, denominator>>
    recording,   \* self.recording: <<>> for None, else <<document>>
    ppc,         \* the position of play()
    idx,         \* the events the for loop of play() has completed
    last_time,   \* play()'s local `last_time`
    delay,       \* play()'s local `delay`, a rational
    slept,       \* the total time play() has spent in time.sleep
    stopped,     \* a KeyboardInterrupt was delivered to play()
    \* ---- fetcher: watch_single_url
    wpc,           \* the position of watch_single_url
    max_attempts,  \* its local `max_attempts`
    url_key,       \* whether it was given a url_key
    attempt,       \* its local `attempt`
    remaining,     \* the seconds left of the countdown of lines 440-444
    shutdown_flag, \* the global `shutdown_flag`
    fetches,       \* the calls of fetch_file it has made
    fetched,       \* a call of fetch_file has returned True
    \* ---- clipulse
    mpc,             \* the position of start_monitoring
    clipCfg,         \* the configuration: auto_expire and the filters
    clipboard,       \* what the system's clipboard holds
    current_content, \* start_monitoring's local `current_content`
    last_content,    \* self.last_content
    table,           \* the rows of clipboard_history, in insertion order
    added,           \* what the last call of add_entry returned, as
                     \* <<value>>; <<>> before the first call
    today            \* datetime.now(), in minutes

recVars == <<rpc, shellArg, environ, winsize, setback, orphan,
             shell, tty_attr, old_tty, master, slave,
             child, stdinBuf, stdinEof, ptyBuf, typed, childOut, ready, data,
             events, clock, start_time, header, outFile, exc, ptyIn, restored,
             transport, spawnFailed, interrupts, again>>

procVars == <<cmd, termOut, exitStatus, fault>>

readVars == <<inFile, speed, recording, ppc, idx, last_time, delay, slept,
              stopped>>

watchVars == <<wpc, max_attempts, url_key, attempt, remaining, shutdown_flag,
               fetches, fetched>>

clipVars == <<mpc, clipCfg, clipboard, current_content, last_content, table,
              added, today>>

\* The variables of the repository's other tools.
toolVars == <<watchVars, clipVars>>

vars == <<procVars, recVars, readVars, toolVars>>

\* ------------------------------------------------------------ the terminal
\* tty.setraw(fd) leaves the terminal in raw mode whatever it was in.
RawAttr == "raw"

\* The attributes a caller's terminal can have when record() starts.
OrigAttrs == {"cooked", "cbreak"}

\* A token written to the terminal.
Msg(m) == [k |-> "msg", m |-> m]
Relay(c) == [k |-> "relay", c |-> c]
Payload(i, d) == [k |-> "payload", i |-> i, d |-> d]
Clear == [k |-> "clear"]

\* ------------------------------------------------------------ chunks, text
\* U+FFFD, what errors='replace' substitutes.
Replacement == 65533

IsCont(b) == b >= 128 /\ b <= 191

\* The number of continuation bytes lead byte b announces, -1 for a byte
\* that cannot start a sequence.
NeedCont(b) ==
    IF b >= 194 /\ b <= 223 THEN 1
    ELSE IF b >= 224 /\ b <= 239 THEN 2
    ELSE IF b >= 240 /\ b <= 244 THEN 3
    ELSE -1

\* Whether c may follow lead byte b as its first continuation byte.
FirstContOk(b, c) ==
    IF b = 224 THEN c >= 160 /\ c <= 191
    ELSE IF b = 237 THEN c >= 128 /\ c <= 159
    ELSE IF b = 240 THEN c >= 144 /\ c <= 191
    ELSE IF b = 244 THEN c >= 128 /\ c <= 143
    ELSE IsCont(c)

\* The number of bytes of bs, from its lead byte on, that form a prefix of
\* a valid sequence (the maximal subpart).
ValidPrefix(bs) ==
    LET n == NeedCont(bs[1])
    IN  IF n = -1 \/ Len(bs) < 2 \/ ~FirstContOk(bs[1], bs[2]) THEN 1
        ELSE IF n = 1 \/ Len(bs) < 3 \/ ~IsCont(bs[3]) THEN 2
        ELSE IF n = 2 \/ Len(bs) < 4 \/ ~IsCont(bs[4]) THEN 3
        ELSE 4

\* The code point of the complete sequence that is the first n bytes of bs.
CodePoint(bs, n) ==
    IF n = 2 THEN (bs[1] - 192) * 64 + (bs[2] - 128)
    ELSE IF n = 3 THEN (bs[1] - 224) * 4096 + (bs[2] - 128) * 64 + (bs[3] - 128)
    ELSE (bs[1] - 240) * 262144 + (bs[2] - 128) * 4096
         + (bs[3] - 128) * 64 + (bs[4] - 128)

\* data.decode('utf-8', errors='replace')
RECURSIVE Decode(_)
Decode(bs) ==
    IF bs = <<>> THEN <<>>
    ELSE IF bs[1] < 128 THEN <<bs[1]>> \o Decode(Tail(bs))
    ELSE LET n == ValidPrefix(bs)
         IN  IF NeedCont(bs[1]) >= 1 /\ n = NeedCont(bs[1]) + 1
             THEN <<CodePoint(bs, n)>> \o Decode(SubSeq(bs, n + 1, Len(bs)))
             ELSE <<Replacement>> \o Decode(SubSeq(bs, n + 1, Len(bs)))

\* What the user types, as the reads of the terminal input chunk it: "h"
\* and the first byte of a two-byte character, the second byte of that
\* character, then "h" over and over.
TypedChunk(n) ==
    IF n = 1 THEN <<104, 195>> ELSE IF n = 2 THEN <<169>> ELSE <<104>>

\* What the child writes, as the reads of the master chunk it: a complete
\* two-byte character, a byte that starts no character followed by "h",
\* then "h" over and over.
ChildChunk(n) ==
    IF n = 1 THEN <<195, 169>> ELSE IF n = 2 THEN <<255, 104>> ELSE <<104>>

\* ------------------------------------------------------------------- rec
cfgVars == <<shellArg, environ, winsize, setback, orphan>>
fdVars == <<master, slave>>
ioVars == <<stdinBuf, stdinEof, ptyBuf, typed, childOut>>
logVars == <<events, start_time, header>>
histVars == <<restored, transport, spawnFailed, interrupts, again>>

\* time.time() reads the system's wall clock, which an administrator or a
\* time daemon can set back, so a call can return less than the call before
\* it. Now(n) is what a call returns when the recorder has logged n events
\* (line 56 of the recorder's first session reads Now(0), and each append
\* makes one call): the clock advances by 700 ms from an append to the
\* next, and right after that first reading it is set back by `setback` ms.
Now(n) == 1700 + 700 * n - (IF n >= 1 THEN setback ELSE 0)

\* The positions of record() inside its try statement (lines 36-115).
TryBody == {"openpty", "spawn", "close_slave", "setraw", "header", "while",
            "select", "stdin_if", "stdin_write", "stdin_append", "master_if",
            "master_write", "master_append", "save_open", "save_dump",
            "print_saved"}

\* The positions of the recording loop (lines 71-104).
LoopBody == {"while", "select", "stdin_if", "stdin_write", "stdin_append",
             "master_if", "master_write", "master_append"}

\* The positions at which the loop is about to look at the child or at the
\* descriptors (proc.poll() of line 71, select() of line 72). What the user
\* and the child do between two such looks is seen by record() at the next
\* one only, so the model lets them act right before a look.
Observing == {"while", "select"}

\* An exception: its type and the line of record() that raised it (0 for
\* a KeyboardInterrupt, which no line raises).
Exc(type, line) == [type |-> type, line |-> line]
NoExc == Exc("none", 0)
Interrupted == Exc("KeyboardInterrupt", 0)

\* An exception e raised in the try statement outside the inner handlers:
\* control passes to the finally clause with e propagating.
Raise(e) ==
    /\ exc' = e
    /\ rpc' = "finally"

\* Mutant of BreakOnOSError: the inner handler is missing and the OSError
\* of the read or write propagates.
PropagateOSError ==
    /\ Raise(Exc("OSError", 77))
    /\ transport' = Len(events)

\* `except OSError: break` (lines 87-88 and 103-104): the loop is left and
\* nothing propagates.
BreakOnOSError ==
    /\ rpc' = "save_open"
    /\ transport' = Len(events)
    /\ UNCHANGED exc

\* Lines 25-34: the default shell, the banner, tcgetattr.
RecBegin ==
    /\ cmd = "rec" /\ rpc = "begin"
    /\ shell' = IF shellArg # "none" THEN shellArg
                ELSE IF environ.SHELL # "none" THEN environ.SHELL
                ELSE "/bin/bash"
    /\ termOut' = termOut \o <<Msg("Recording session to"), Msg("Type exit")>>
    /\ old_tty' = tty_attr
    /\ rpc' = "openpty"
    /\ UNCHANGED <<readVars, toolVars>>
    /\ UNCHANGED <<cmd, exitStatus, fault, cfgVars, tty_attr, fdVars, child,
                   ioVars, ready, data, logVars, clock, outFile, exc, ptyIn,
                   histVars>>

\* Line 38: pty.openpty().
OpenPty ==
    /\ rpc = "openpty"
    /\ \/ /\ master' = "open" /\ slave' = "open"
          /\ rpc' = "spawn"
          /\ UNCHANGED exc
       \/ /\ Raise(Exc("OSError", 38))
          /\ UNCHANGED fdVars
    /\ UNCHANGED <<readVars, toolVars>>
    /\ UNCHANGED <<procVars, cfgVars, shell, tty_attr, old_tty, child, ioVars,
                   ready, data, logVars, clock, outFile, ptyIn, histVars>>

\* Mutant of SpawnFails: the failure is swallowed and record() goes on.
SpawnFailsUnnoticed ==
    /\ rpc' = "close_slave"
    /\ spawnFailed' = TRUE
    /\ UNCHANGED <<exc, child, tty_attr, restored>>

\* What follows a failure of subprocess.Popen (lines 41-48): it is raised in
\* the try statement, before raw mode is set.
SpawnFails ==
    /\ Raise(Exc("OSError", 41))
    /\ spawnFailed' = TRUE
    /\ UNCHANGED <<child, tty_attr, restored>>

\* Lines 41-48: subprocess.Popen(shell, stdin=slave, ...).
Spawn ==
    /\ rpc = "spawn"
    /\ \/ /\ child' = "running"
          /\ rpc' = "close_slave"
          /\ UNCHANGED <<exc, spawnFailed, tty_attr, restored>>
       \/ SpawnFails
    /\ UNCHANGED <<readVars, toolVars>>
    /\ UNCHANGED <<procVars, cfgVars, shell, old_tty, fdVars, ioVars, ready,
                   data, logVars, clock, outFile, ptyIn, transport, interrupts,
                   again>>

\* Line 51: os.close(slave).
CloseSlave ==
    /\ rpc = "close_slave"
    /\ slave' = "closed"
    /\ rpc' = "setraw"
    /\ UNCHANGED <<readVars, toolVars>>
    /\ UNCHANGED <<procVars, cfgVars, shell, tty_attr, old_tty, master, child,
                   ioVars, ready, data, logVars, clock, outFile, exc, ptyIn,
                   histVars>>

\* Line 54: tty.setraw(sys.stdin.fileno()).
SetRaw ==
    /\ rpc = "setraw"
    /\ tty_attr' = RawAttr
    /\ rpc' = "header"
    /\ UNCHANGED <<readVars, toolVars>>
    /\ UNCHANGED <<procVars, cfgVars, shell, old_tty, fdVars, child, ioVars,
                   ready, data, logVars, clock, outFile, exc, ptyIn, histVars>>

\* The sizes of the terminal: the one it has when `rec` starts and the one
\* the user gives its window later.
StartSize == <<80, 24>>
NewSize == <<132, 43>>

\* Mutant of Header: the shell is taken from the environment whatever the
\* --shell argument.
HeaderOfEnviron(now) ==
    [version |-> 2,
     width |-> winsize[1],
     height |-> winsize[2],
     timestamp |-> now \div 1000,
     env |-> [SHELL |-> IF environ.SHELL # "none" THEN environ.SHELL
                        ELSE "/bin/bash",
              TERM |-> IF environ.TERM # "none" THEN environ.TERM
                       ELSE "xterm-256color"]]

\* Lines 59-68: the header, for the start time `now`.
Header(now) ==
    [version |-> 2,
     width |-> winsize[1],
     height |-> winsize[2],
     timestamp |-> now \div 1000,
     env |-> [SHELL |-> shell,
              TERM |-> IF environ.TERM # "none" THEN environ.TERM
                       ELSE "xterm-256color"]]

\* Lines 56-68: the start time and the header; os.get_terminal_size() raises
\* OSError when standard output is no terminal.
StartHeader ==
    /\ rpc = "header"
    /\ \/ /\ LET now == Now(Len(events))
             IN  /\ clock' = now
                 /\ start_time' = now
                 /\ header' = <<Header(now)>>
          /\ rpc' = "while"
          /\ UNCHANGED <<exc, events>>
       \/ /\ LET now == Now(Len(events))
             IN  /\ clock' = now
                 /\ start_time' = now
          /\ Raise(Exc("OSError", 61))
          /\ UNCHANGED <<header, events>>
    /\ UNCHANGED <<readVars, toolVars>>
    /\ UNCHANGED <<procVars, cfgVars, shell, tty_attr, old_tty, fdVars, child,
                   ioVars, ready, data, outFile, ptyIn, histVars>>

\* Line 71: while proc.poll() is None.
LoopTest ==
    /\ rpc = "while"
    /\ rpc' = IF child = "running" THEN "select" ELSE "save_open"
    /\ UNCHANGED <<readVars, toolVars>>
    /\ UNCHANGED <<procVars, cfgVars, shell, tty_attr, old_tty, fdVars, child,
                   ioVars, ready, data, logVars, clock, outFile, exc, ptyIn,
                   histVars>>

\* The descriptors select() reports readable: the terminal input when a
\* chunk or end of stream is pending, the master when a chunk is pending or
\* the slave side is closed everywhere (the shell has exited and has left
\* no process behind that holds it).
Readable ==
    (IF stdinBuf # <<>> \/ stdinEof THEN {"stdin"} ELSE {})
    \cup (IF ptyBuf # <<>> \/ (child = "exited" /\ ~orphan)
          THEN {"master"} ELSE {})

\* Mutant of Select: the wait has no timeout and returns only when a
\* descriptor is readable.
SelectBlocks ==
    /\ rpc = "select"
    /\ Readable # {}
    /\ ready' = Readable
    /\ rpc' = "stdin_if"
    /\ UNCHANGED <<readVars, toolVars>>
    /\ UNCHANGED <<procVars, cfgVars, shell, tty_attr, old_tty, fdVars, child,
                   ioVars, data, logVars, clock, outFile, exc, ptyIn, histVars>>

\* Line 72: select.select([sys.stdin, master], [], [], 0.1); it returns the
\* empty list when the timeout passes.
Select ==
    /\ rpc = "select"
    /\ ready' = Readable
    /\ rpc' = "stdin_if"
    /\ UNCHANGED <<readVars, toolVars>>
    /\ UNCHANGED <<procVars, cfgVars, shell, tty_attr, old_tty, fdVars, child,
                   ioVars, data, logVars, clock, outFile, exc, ptyIn, histVars>>

\* Lines 74-78, 87-88: the read of the terminal input.
StdinIf ==
    /\ rpc = "stdin_if"
    /\ \/ /\ "stdin" \notin ready
          /\ rpc' = "master_if"
          /\ UNCHANGED <<data, stdinBuf, exc, transport>>
       \/ /\ "stdin" \in ready /\ stdinBuf # <<>>
          /\ data' = Head(stdinBuf)
          /\ stdinBuf' = Tail(stdinBuf)
          /\ rpc' = "stdin_write"
          /\ UNCHANGED <<exc, transport>>
       \/ /\ "stdin" \in ready /\ stdinBuf = <<>>
          /\ data' = <<>>
          /\ rpc' = "master_if"
          /\ UNCHANGED <<stdinBuf, exc, transport>>
       \/ /\ "stdin" \in ready
          /\ BreakOnOSError
          /\ UNCHANGED <<data, stdinBuf>>
    /\ UNCHANGED <<readVars, toolVars>>
    /\ UNCHANGED <<procVars, cfgVars, shell, tty_attr, old_tty, fdVars, child,
                   stdinEof, ptyBuf, typed, childOut, ready, logVars, clock,
                   outFile, ptyIn, restored, spawnFailed, interrupts, again>>

\* Mutant of StdinWrite: a chunk whose write to the master failed is logged
\* all the same.
StdinWriteThenLog ==
    /\ rpc = "stdin_write"
    /\ \/ /\ ptyIn' = Append(ptyIn, data)
          /\ rpc' = "stdin_append"
          /\ UNCHANGED <<exc, transport>>
       \/ /\ rpc' = "stdin_append"
          /\ UNCHANGED <<ptyIn, exc, transport>>
    /\ UNCHANGED <<readVars, toolVars>>
    /\ UNCHANGED <<procVars, cfgVars, shell, tty_attr, old_tty, fdVars, child,
                   ioVars, ready, data, logVars, clock, outFile, restored,
                   spawnFailed, interrupts, again>>

\* Line 80: os.write(master, data).
StdinWrite ==
    /\ rpc = "stdin_write"
    /\ \/ /\ ptyIn' = Append(ptyIn, data)
          /\ rpc' = "stdin_append"
          /\ UNCHANGED <<exc, transport>>
       \/ /\ BreakOnOSError
          /\ UNCHANGED ptyIn
    /\ UNCHANGED <<readVars, toolVars>>
    /\ UNCHANGED <<procVars, cfgVars, shell, tty_attr, old_tty, fdVars, child,
                   ioVars, ready, data, logVars, clock, outFile, restored,
                   spawnFailed, interrupts, again>>

\* Mutant of Event: the chunk is logged as its bytes, undecoded.
EventUndecoded(now, k, c) == <<now - start_time, k, c>>

\* The event appended for chunk c of kind k read at time now.
Event(now, k, c) == <<now - start_time, k, Decode(c)>>

\* Lines 82-86: self.events.append([time.time() - self.start_time, "i", ...]).
StdinAppend ==
    /\ rpc = "stdin_append"
    /\ LET now == Now(Len(events) + 1)
       IN  /\ clock' = now
           /\ events' = Append(events, Event(now, "i", data))
    /\ rpc' = "master_if"
    /\ UNCHANGED <<readVars, toolVars>>
    /\ UNCHANGED <<procVars, cfgVars, shell, tty_attr, old_tty, fdVars, child,
                   ioVars, ready, data, start_time, header, outFile, exc,
                   ptyIn, histVars>>

\* Lines 90-94, 103-104: the read of the pty master. With nothing buffered
\* and the slave side closed the read fails (EIO) or returns no bytes,
\* as the platform has it.
MasterIf ==
    /\ rpc = "master_if"
    /\ \/ /\ "master" \notin ready
          /\ rpc' = "while"
          /\ UNCHANGED <<data, ptyBuf, exc, transport>>
       \/ /\ "master" \in ready /\ ptyBuf # <<>>
          /\ data' = Head(ptyBuf)
          /\ ptyBuf' = Tail(ptyBuf)
          /\ rpc' = "master_write"
          /\ UNCHANGED <<exc, transport>>
       \/ /\ "master" \in ready /\ ptyBuf = <<>>
          /\ data' = <<>>
          /\ rpc' = "while"
          /\ UNCHANGED <<ptyBuf, exc, transport>>
       \/ /\ "master" \in ready
          /\ BreakOnOSError
          /\ UNCHANGED <<data, ptyBuf>>
    /\ UNCHANGED <<readVars, toolVars>>
    /\ UNCHANGED <<procVars, cfgVars, shell, tty_attr, old_tty, fdVars, child,
                   stdinBuf, stdinEof, typed, childOut, ready, logVars, clock,
                   outFile, ptyIn, restored, spawnFailed, interrupts, again>>

\* Line 96: os.write(sys.stdout.fileno(), data).
MasterWrite ==
    /\ rpc = "master_write"
    /\ \/ /\ termOut' = Append(termOut, Relay(data))
          /\ rpc' = "master_append"
          /\ UNCHANGED <<exc, transport>>
       \/ /\ BreakOnOSError
          /\ UNCHANGED termOut
    /\ UNCHANGED <<readVars, toolVars>>
    /\ UNCHANGED <<cmd, exitStatus, fault, cfgVars, shell, tty_attr, old_tty,
                   fdVars, child, ioVars, ready, data, logVars, clock, outFile,
                   ptyIn, restored, spawnFailed, interrupts, again>>

\* Lines 98-102: self.events.append([time.time() - self.start_time, "o", ...]).
MasterAppend ==
    /\ rpc = "master_append"
    /\ LET now == Now(Len(events) + 1)
       IN  /\ clock' = now
           /\ events' = Append(events, Event(now, "o", data))
    /\ rpc' = "while"
    /\ UNCHANGED <<readVars, toolVars>>
    /\ UNCHANGED <<procVars, cfgVars, shell, tty_attr, old_tty, fdVars, child,
                   ioVars, ready, data, start_time, header, outFile, exc,
                   ptyIn, histVars>>

\* The content of a file: absent, what was there before ("old"), opened for
\* writing and not completely written ("partial"), or a complete document.
FileOf(st, doc) == [st |-> st, doc |-> doc]

\* ------------------------------------------------------------------ JSON
\* json.dump (ensure_ascii) writes a character of a str as itself when it
\* is printable ASCII other than '"' and '\', and as an escape otherwise.
Escaped(c) == c < 32 \/ c = 34 \/ c = 92 \/ c > 126

\* The surrogate pair that stands for a character beyond U+FFFF.
HighSurrogate(c) == 55296 + ((c - 65536) \div 1024)
LowSurrogate(c) == 56320 + ((c - 65536) % 1024)
IsHigh(u) == u >= 55296 /\ u <= 56319
IsLow(u) == u >= 56320 /\ u <= 57343

\* Mutant of JsonChar: a character that is not ASCII is written as its low
\* eight bits.
JsonCharLatin(c) == IF Escaped(c) THEN << <<1, c % 256>> >> ELSE << <<0, c>> >>

\* The items of a string literal written for character c: <<0, c>> for the
\* character itself, <<1, u>> for the escape \uXXXX of the 16-bit unit u.
JsonChar(c) ==
    IF ~Escaped(c) THEN << <<0, c>> >>
    ELSE IF c < 65536 THEN << <<1, c>> >>
    ELSE << <<1, HighSurrogate(c)>>, <<1, LowSurrogate(c)>> >>

\* The string literal json.dump writes for text s.
RECURSIVE JsonString(_)
JsonString(s) ==
    IF s = <<>> THEN <<>> ELSE JsonChar(Head(s)) \o JsonString(Tail(s))

\* The text json.load reads from string literal l: an escaped high
\* surrogate followed by an escaped low one is one character.
RECURSIVE JsonText(_)
JsonText(l) ==
    IF l = <<>> THEN <<>>
    ELSE IF /\ Len(l) >= 2
            /\ l[1][1] = 1 /\ IsHigh(l[1][2])
            /\ l[2][1] = 1 /\ IsLow(l[2][2])
    THEN <<65536 + (l[1][2] - 55296) * 1024 + (l[2][2] - 56320)>>
         \o JsonText(SubSeq(l, 3, Len(l)))
    ELSE <<l[1][2]>> \o JsonText(Tail(l))

\* The literal of a str of printable ASCII (a path, a terminal type, an
\* event kind): the str between quotes.
JsonAscii(s) == <<"quoted", s>>
AsciiOf(l) == l[2]

\* The literal of an int, and that of a float of ms milliseconds in
\* seconds: its whole part, a point, and its thousandths.
JsonInt(n) == <<"int", n>>
JsonFloat(ms) == <<"float", ms \div 1000, ms % 1000>>
NumberOf(l) == IF l[1] = "int" THEN l[2] ELSE l[2] * 1000 + l[3]

\* Lines 107-113: json.dump of {**header, "events": self.events}, an object
\* of the header's members followed by the array of the events.
JsonDump(h, es) ==
    [version |-> JsonInt(h.version),
     width |-> JsonInt(h.width),
     height |-> JsonInt(h.height),
     timestamp |-> JsonInt(h.timestamp),
     env |-> [SHELL |-> JsonAscii(h.env.SHELL), TERM |-> JsonAscii(h.env.TERM)],
     events |-> [i \in 1..Len(es) |->
                    <<JsonFloat(es[i][1]), JsonAscii(es[i][2]),
                      JsonString(es[i][3])>>]]

\* Line 134: json.load of a document that json.dump wrote.
JsonLoad(d) ==
    [version |-> NumberOf(d.version),
     width |-> NumberOf(d.width),
     height |-> NumberOf(d.height),
     timestamp |-> NumberOf(d.timestamp),
     env |-> [SHELL |-> AsciiOf(d.env.SHELL), TERM |-> AsciiOf(d.env.TERM)],
     events |-> [i \in 1..Len(d.events) |->
                    <<NumberOf(d.events[i][1]), AsciiOf(d.events[i][2]),
                      JsonText(d.events[i][3])>>]]

\* Lines 107-112: the recording, and open(self.output_file, 'w'), which
\* truncates the file.
SaveOpen ==
    /\ rpc = "save_open"
    /\ \/ /\ outFile' = FileOf("partial", <<>>)
          /\ rpc' = "save_dump"
          /\ UNCHANGED exc
       \/ /\ Raise(Exc("OSError", 112))
          /\ UNCHANGED outFile
    /\ UNCHANGED <<readVars, toolVars>>
    /\ UNCHANGED <<procVars, cfgVars, shell, tty_attr, old_tty, fdVars, child,
                   ioVars, ready, data, logVars, clock, ptyIn, histVars>>

\* Line 113 and the end of the with statement: json.dump and the close.
SaveDump ==
    /\ rpc = "save_dump"
    /\ \/ /\ outFile' = FileOf("complete", <<JsonDump(header[1], events)>>)
          /\ rpc' = "print_saved"
          /\ UNCHANGED exc
       \/ /\ Raise(Exc("OSError", 113))
          /\ UNCHANGED outFile
    /\ UNCHANGED <<readVars, toolVars>>
    /\ UNCHANGED <<procVars, cfgVars, shell, tty_attr, old_tty, fdVars, child,
                   ioVars, ready, data, logVars, clock, ptyIn, histVars>>

\* Line 115.
PrintSaved ==
    /\ rpc = "print_saved"
    /\ termOut' = Append(termOut, Msg("Recording saved"))
    /\ rpc' = "finally"
    /\ UNCHANGED <<readVars, toolVars>>
    /\ UNCHANGED <<cmd, exitStatus, fault, cfgVars, shell, tty_attr, old_tty,
                   fdVars, child, ioVars, ready, data, logVars, clock, outFile,
                   exc, ptyIn, histVars>>

\* Line 119: termios.tcsetattr(sys.stdin, termios.TCSADRAIN, old_tty).
Restore ==
    /\ rpc = "finally"
    /\ tty_attr' = old_tty
    /\ restored' = TRUE
    /\ rpc' = "close_master"
    /\ UNCHANGED <<readVars, toolVars>>
    /\ UNCHANGED <<procVars, cfgVars, shell, old_tty, fdVars, child, ioVars,
                   ready, data, logVars, clock, outFile, exc, ptyIn, transport,
                   spawnFailed, interrupts, again>>

\* How record() ends once the finally clause is done: it re-raises the
\* propagating exception, if any.
Leave == IF exc = NoExc THEN "returned" ELSE "raised"

\* Lines 120-123: os.close(master) under a bare except (which also swallows
\* the NameError of an unbound master).
CloseMaster ==
    /\ rpc = "close_master"
    /\ master' = IF master = "open" THEN "closed" ELSE master
    /\ rpc' = Leave
    /\ UNCHANGED <<readVars, toolVars>>
    /\ UNCHANGED <<procVars, cfgVars, shell, tty_attr, old_tty, slave, child,
                   ioVars, ready, data, logVars, clock, outFile, exc, ptyIn,
                   histVars>>

\* A SIGINT delivered to the recorder. The interpreter raises
\* KeyboardInterrupt in the main thread where it next checks for signals:
\* up to CPython 3.9 before any bytecode instruction, later after a call
\* returns or a loop jumps back. In the try statement it passes control to
\* the finally clause. In the finally clause it is raised before line 119
\* has called tcsetattr (between the instructions that evaluate the call's
\* arguments; or by tcsetattr itself, whose wait for the output to drain
\* the signal ends with EINTR, which termios does not retry): record() is
\* left with tcsetattr not having taken effect. In lines 120-123 it is
\* raised before the inner try is entered and propagates, or in the inner
\* try, before or after os.close, where the bare except swallows it.
RecInterrupt ==
    /\ \/ /\ rpc \in TryBody
          /\ Raise(Interrupted)
          /\ UNCHANGED master
       \/ /\ rpc = "finally"
          /\ exc' = Interrupted
          /\ rpc' = "raised"
          /\ UNCHANGED master
       \/ /\ rpc = "close_master"
          /\ exc' = Interrupted
          /\ rpc' = "raised"
          /\ UNCHANGED master
       \/ /\ rpc = "close_master"
          /\ rpc' = Leave
          /\ master' \in {master, IF master = "open" THEN "closed" ELSE master}
          /\ UNCHANGED exc
    /\ interrupts' = TRUE
    /\ UNCHANGED <<readVars, toolVars>>
    /\ UNCHANGED <<procVars, cfgVars, shell, tty_attr, old_tty, slave, child,
                   ioVars, ready, data, logVars, clock, outFile, ptyIn,
                   restored, transport, spawnFailed, again>>

\* The user types a chunk.
UserType ==
    /\ rpc \in Observing /\ ~stdinEof
    /\ Len(typed) < MaxChunks
    /\ stdinBuf' = Append(stdinBuf, TypedChunk(Len(typed) + 1))
    /\ typed' = Append(typed, TypedChunk(Len(typed) + 1))
    /\ UNCHANGED <<readVars, toolVars>>
    /\ UNCHANGED <<procVars, cfgVars, rpc, shell, tty_attr, old_tty, fdVars,
                   child, stdinEof, ptyBuf, childOut, ready, data, logVars,
                   clock, outFile, exc, ptyIn, histVars>>

\* The terminal input reaches end of stream (a hangup).
StdinHangup ==
    /\ rpc \in Observing /\ ~stdinEof
    /\ stdinEof' = TRUE
    /\ UNCHANGED <<readVars, toolVars>>
    /\ UNCHANGED <<procVars, cfgVars, rpc, shell, tty_attr, old_tty, fdVars,
                   child, stdinBuf, ptyBuf, typed, childOut, ready, data,
                   logVars, clock, outFile, exc, ptyIn, histVars>>

\* The user resizes the terminal's window during the session.
Resize ==
    /\ rpc \in Observing /\ winsize = StartSize
    /\ winsize' = NewSize
    /\ UNCHANGED <<readVars, toolVars>>
    /\ UNCHANGED <<procVars, shellArg, environ, setback, orphan, rpc, shell,
                   tty_attr, old_tty, fdVars, child, ioVars, ready, data,
                   logVars, clock, outFile, exc, ptyIn, histVars>>

\* The child writes a chunk to its terminal, the pty slave.
ChildWrite ==
    /\ rpc \in Observing /\ child = "running"
    /\ Len(childOut) < MaxChunks
    /\ ptyBuf' = Append(ptyBuf, ChildChunk(Len(childOut) + 1))
    /\ childOut' = Append(childOut, ChildChunk(Len(childOut) + 1))
    /\ UNCHANGED <<readVars, toolVars>>
    /\ UNCHANGED <<procVars, cfgVars, rpc, shell, tty_attr, old_tty, fdVars,
                   child, stdinBuf, stdinEof, typed, ready, data, logVars,
                   clock, outFile, exc, ptyIn, histVars>>

\* The child exits.
ChildExit ==
    /\ rpc \in Observing /\ child = "running"
    /\ child' = "exited"
    /\ UNCHANGED <<readVars, toolVars>>
    /\ UNCHANGED <<procVars, cfgVars, rpc, shell, tty_attr, old_tty, fdVars,
                   ioVars, ready, data, logVars, clock, outFile, exc, ptyIn,
                   histVars>>

\* The exit status of a process that ends with exception e unhandled (for
\* a KeyboardInterrupt, that of a process killed by SIGINT).
FaultStatus(e) == IF e = "KeyboardInterrupt" THEN 130 ELSE 1

\* Lines 202-204 and the end of the process: main() handles nothing that
\* record() raises, so the interpreter prints the traceback.
MainRec ==
    /\ cmd = "rec" /\ exitStatus = -1
    /\ \/ /\ rpc = "returned"
          /\ exitStatus' = 0
          /\ UNCHANGED <<fault, termOut>>
       \/ /\ rpc = "raised"
          /\ fault' = exc.type
          /\ termOut' = Append(termOut, Msg("Traceback"))
          /\ exitStatus' = FaultStatus(exc.type)
    /\ rpc' = "exited"
    /\ UNCHANGED <<readVars, toolVars>>
    /\ UNCHANGED <<cmd, cfgVars, shell, tty_attr, old_tty, fdVars, child,
                   ioVars, ready, data, logVars, clock, outFile, exc, ptyIn,
                   histVars>>

\* The runs of `rec`: the --shell argument, the environment, the terminal's
\* attributes, the file at the output path, the system's clock and what the
\* shell leaves behind. Each of --shell, SHELL and TERM is given in one run
\* and missing in another, the terminal starts in either mode, the output
\* file exists or not, the clock is set back or not, and the shell leaves a
\* background process on the pty or not.
Configs ==
    { [arg |-> "/bin/zsh", SHELL |-> "/bin/sh", TERM |-> "vt100",
       tty |-> "cooked", file |-> "absent", back |-> 0, orphan |-> FALSE],
      [arg |-> "none", SHELL |-> "/bin/sh", TERM |-> "none",
       tty |-> "cbreak", file |-> "old", back |-> 1200, orphan |-> FALSE],
      [arg |-> "none", SHELL |-> "none", TERM |-> "vt100",
       tty |-> "cooked", file |-> "old", back |-> 0, orphan |-> TRUE] }

InitProc(c) ==
    /\ cmd = c
    /\ termOut = <<>>
    /\ exitStatus = -1
    /\ fault = "none"

InitRec ==
    /\ rpc = "begin"
    /\ \E c \in Configs :
          /\ shellArg = c.arg
          /\ environ = [SHELL |-> c.SHELL, TERM |-> c.TERM]
          /\ winsize = StartSize
          /\ setback = c.back
          /\ orphan = c.orphan
          /\ tty_attr = c.tty
          /\ outFile = FileOf(c.file, <<>>)
    /\ shell = "unbound"
    /\ old_tty = "unbound"
    /\ master = "unbound" /\ slave = "unbound"
    /\ child = "none"
    /\ stdinBuf = <<>> /\ stdinEof = FALSE /\ ptyBuf = <<>>
    /\ typed = <<>> /\ childOut = <<>>
    /\ ready = {} /\ data = <<>>
    /\ events = <<>>
    /\ clock = 0
    /\ start_time = -1
    /\ header = <<>>
    /\ exc = NoExc
    /\ ptyIn = <<>>
    /\ restored = FALSE
    /\ transport = -1
    /\ spawnFailed = FALSE
    /\ interrupts = FALSE
    /\ again = FALSE

NextRec ==
    \/ RecBegin \/ OpenPty \/ Spawn \/ CloseSlave \/ SetRaw \/ StartHeader
    \/ LoopTest \/ Select \/ StdinIf \/ StdinWrite \/ StdinAppend
    \/ MasterIf \/ MasterWrite \/ MasterAppend
    \/ SaveOpen \/ SaveDump \/ PrintSaved \/ Restore \/ CloseMaster
    \/ RecInterrupt \/ UserType \/ StdinHangup \/ Resize \/ ChildWrite
    \/ ChildExit
    \/ MainRec

\* ------------------------------------------------------------ rationals
Abs(n) == IF n < 0 THEN -n ELSE n

RECURSIVE GCD(_, _)
GCD(a, b) == IF b = 0 THEN a ELSE GCD(b, a % b)

\* The rational n/d (d # 0) in lowest terms with a positive denominator.
Rat(n, d) ==
    LET g == GCD(Abs(n), Abs(d))
        sg == IF d < 0 THEN -1 ELSE 1
    IN  <<sg * (n \div g), sg * (d \div g)>>

Zero == Rat(0, 1)
RatAdd(a, b) == Rat(a[1] * b[2] + b[1] * a[2], a[2] * b[2])
RatPos(a) == a[1] > 0
RatNeg(a) == a[1] < 0

\* ------------------------------------------------------- recording files
\* An element of the events array: a well-formed [elapsed, kind, text]
\* ("triple"), an array [elapsed, kind] of two elements ("short"), a number
\* ("scalar"), or an array of three elements whose first is a string
\* ("badts"). Elapsed values are in milliseconds.
Elem(shape, ts, kind, text) ==
    [shape |-> shape, ts |-> ts, kind |-> kind, data |-> text]

Times == {0, 125, 1000, 2500}
Kinds == {"i", "o"}
Payloads == {"a", "b"}

Elems ==
    { Elem("triple", t, k, d) : t \in Times, k \in Kinds, d \in Payloads }
    \cup { Elem("short", 1000, "o", ""), Elem("scalar", 0, "", ""),
           Elem("badts", 0, "o", "a") }

SeqsUpTo(S, n) == UNION { [1..m -> S] : m \in 0..n }

\* A JSON document: its top-level value (an object, a non-empty array or
\* null) and, for an object, what it holds under "events": nothing
\* ("absent"), an array ("list", with its elements), null or a number.
Doc(top, evKind, items) == [top |-> top, evKind |-> evKind, items |-> items]

Docs ==
    { Doc("array", "absent", <<>>), Doc("null", "absent", <<>>) }
    \cup { Doc("object", k, <<>>) : k \in {"absent", "null", "number"} }
    \cup { Doc("object", "list", es) : es \in SeqsUpTo(Elems, MaxEvents) }

\* The file at the input path: missing, not readable (a directory, no
\* permission), bytes that are no text in the locale's encoding
\* ("undecodable"), text that is no JSON ("notjson"), or a JSON document.
File(kind, doc) == [kind |-> kind, doc |-> doc]

Files ==
    { File(k, Doc("null", "absent", <<>>)) :
          k \in {"missing", "unreadable", "undecodable", "notjson"} }
    \cup { File("json", d) : d \in Docs }

\* The outcome of open(path, 'r') followed by json.load(f): the exception
\* raised, "none" when a document is returned.
LoadError(f) ==
    CASE f.kind = "missing" -> "FileNotFoundError"
      [] f.kind = "unreadable" -> "PermissionError"
      [] f.kind = "undecodable" -> "UnicodeDecodeError"
      [] f.kind = "notjson" -> "JSONDecodeError"
      [] OTHER -> "none"

\* ------------------------------------------------------------------ play
\* --speed is any float (type=float of line 189, with no check of its
\* sign): 1, 2, 0 and -1.
Speeds == { <<1, 1>>, <<2, 1>>, <<0, 1>>, <<-1, 1>> }

playLocals == <<idx, last_time, delay, slept>>

\* An exception that nothing in play() handles: it leaves play().
Fault(e) ==
    /\ fault' = e
    /\ ppc' = "raised"

\* The exceptions load_recording handles (lines 135-140), each by printing
\* a message and calling sys.exit(1).
LoadHandled == {"FileNotFoundError", "JSONDecodeError"}

\* Lines 130-140: load_recording.
LoadRecording ==
    LET e == LoadError(inFile)
    IN  IF e = "none"
        THEN /\ recording' = <<inFile.doc>>
             /\ ppc' = "banner"
             /\ UNCHANGED <<termOut, exitStatus, fault>>
        ELSE IF e \in LoadHandled
        THEN /\ termOut' = Append(termOut,
                     Msg(IF e = "FileNotFoundError"
                         THEN "Error: Recording file not found"
                         ELSE "Error: Invalid recording file"))
             /\ exitStatus' = 1
             /\ ppc' = "exited"
             /\ UNCHANGED <<recording, fault>>
        ELSE /\ Fault(e)
             /\ UNCHANGED <<recording, termOut, exitStatus>>

\* Lines 142-145: play() loads the recording when it holds none.
PlayStart ==
    /\ cmd = "play" /\ ppc = "start"
    /\ IF recording = <<>>
       THEN LoadRecording
       ELSE /\ ppc' = "banner"
            /\ UNCHANGED <<recording, termOut, exitStatus, fault>>
    /\ UNCHANGED <<cmd, recVars, toolVars, inFile, speed, playLocals, stopped>>

\* Lines 147-151: the banner and the clear-screen sequence.
PlayBanner ==
    /\ ppc = "banner"
    /\ termOut' = termOut \o <<Msg("Playing"), Msg("Press Ctrl+C"), Clear>>
    /\ ppc' = "enter"
    /\ UNCHANGED <<cmd, exitStatus, fault, recVars, toolVars, inFile, speed,
                   recording,
                   playLocals, stopped>>

\* self.recording.get('events', []) for document d: the exception it or
\* the iteration over its value raises, "none" otherwise.
EventsError(d) ==
    IF d.top # "object" THEN "AttributeError"
    ELSE IF d.evKind \in {"null", "number"} THEN "TypeError"
    ELSE "none"

\* es with element e inserted before the first element of a later time.
RECURSIVE InsertByTime(_, _)
InsertByTime(e, es) ==
    IF es = <<>> THEN <<e>>
    ELSE IF e.ts < Head(es).ts THEN <<e>> \o es
    ELSE <<Head(es)>> \o InsertByTime(e, Tail(es))

RECURSIVE SortByTime(_)
SortByTime(es) ==
    IF es = <<>> THEN <<>>
    ELSE InsertByTime(es[Len(es)], SortByTime(SubSeq(es, 1, Len(es) - 1)))

\* Mutant of Iterated: the events are played in the order of their times.
IteratedByTime(d) == IF d.evKind = "list" THEN SortByTime(d.items) ELSE <<>>

\* The sequence the for loop of line 155 iterates over: the events in
\* stored order.
Iterated(d) == IF d.evKind = "list" THEN d.items ELSE <<>>

\* Lines 153-155: last_time = 0 and the start of the iteration.
PlayEnter ==
    /\ ppc = "enter"
    /\ last_time' = 0
    /\ idx' = 0
    /\ IF EventsError(recording[1]) = "none"
       THEN /\ ppc' = "next"
            /\ UNCHANGED fault
       ELSE Fault(EventsError(recording[1]))
    /\ UNCHANGED <<cmd, termOut, exitStatus, recVars, toolVars, inFile, speed,
                   recording, delay, slept, stopped>>

\* Mutant of Delay: the speed is ignored.
DelayUnscaled(timestamp, last, sp) == Rat(timestamp - last, 1)

\* Line 159: delay = (timestamp - last_time) / speed.
Delay(timestamp, last, sp) == Rat((timestamp - last) * sp[2], sp[1])

\* Mutant of ShouldSleep: any delay other than zero is slept.
ShouldSleepNonZero(d) == d[1] # 0

\* Mutant of ShouldSleep: the test of line 160 is missing.
ShouldSleepAlways(d) == TRUE

\* Line 160: if delay > 0.
ShouldSleep(d) == RatPos(d)

\* Lines 156-160: what unpacking event e and computing its delay raises,
\* "none" otherwise.
EventError(e, sp) ==
    CASE e.shape = "short" -> "ValueError"
      [] e.shape = "scalar" -> "TypeError"
      [] e.shape = "badts" -> "TypeError"
      [] sp[1] = 0 -> "ZeroDivisionError"
      [] OTHER -> "none"

\* Lines 155-160: the next event, if any, is unpacked and its delay
\* computed.
PlayNext ==
    /\ ppc = "next"
    /\ LET es == Iterated(recording[1])
       IN  IF idx >= Len(es)
           THEN /\ ppc' = "finish"
                /\ UNCHANGED <<delay, fault>>
           ELSE LET e == es[idx + 1]
                IN  IF EventError(e, speed) # "none"
                    THEN /\ Fault(EventError(e, speed))
                         /\ UNCHANGED delay
                    ELSE /\ delay' = Delay(e.ts, last_time, speed)
                         /\ ppc' = IF ShouldSleep(delay')
                                   THEN "sleep" ELSE "emit"
                         /\ UNCHANGED fault
    /\ UNCHANGED <<cmd, termOut, exitStatus, recVars, toolVars, inFile, speed,
                   recording, idx, last_time, slept, stopped>>

\* Line 161: time.sleep(delay), which raises ValueError for a negative
\* argument.
PlaySleep ==
    /\ ppc = "sleep"
    /\ IF RatNeg(delay)
       THEN /\ Fault("ValueError")
            /\ UNCHANGED slept
       ELSE /\ slept' = RatAdd(slept, delay)
            /\ ppc' = "emit"
            /\ UNCHANGED fault
    /\ UNCHANGED <<cmd, termOut, exitStatus, recVars, toolVars, inFile, speed,
                   recording, idx, last_time, delay, stopped>>

\* Mutant of Played: the test of line 164 is missing.
PlayedAlways(e) == TRUE

\* Line 164: if event_type == "o".
Played(e) == e.kind = "o"

\* Mutant of PlayEmit: last_time follows the Output events only.
PlayEmitFromLastOutput ==
    /\ ppc = "emit"
    /\ LET e == Iterated(recording[1])[idx + 1]
       IN  /\ termOut' = IF Played(e)
                         THEN Append(termOut, Payload(idx + 1, e.data))
                         ELSE termOut
           /\ last_time' = IF Played(e) THEN e.ts ELSE last_time
    /\ idx' = idx + 1
    /\ ppc' = "next"
    /\ UNCHANGED <<cmd, exitStatus, fault, recVars, toolVars, inFile, speed,
                   recording,
                   delay, slept, stopped>>

\* Lines 163-167: an output event's payload is printed; last_time follows.
PlayEmit ==
    /\ ppc = "emit"
    /\ LET e == Iterated(recording[1])[idx + 1]
       IN  /\ termOut' = IF Played(e)
                         THEN Append(termOut, Payload(idx + 1, e.data))
                         ELSE termOut
           /\ last_time' = e.ts
    /\ idx' = idx + 1
    /\ ppc' = "next"
    /\ UNCHANGED <<cmd, exitStatus, fault, recVars, toolVars, inFile, speed,
                   recording,
                   delay, slept, stopped>>

\* The positions of play() inside its try statement (lines 154-167).
PlayTry == {"enter", "next", "sleep", "emit"}

\* Mutant of PlayStopped: the notice is printed and the loop goes on.
PlayStoppedResumes ==
    /\ termOut' = Append(termOut, Msg("Playback stopped"))
    /\ UNCHANGED <<ppc, fault>>

\* Lines 169-170: `except KeyboardInterrupt` prints the notice; control
\* leaves the try statement for line 172.
PlayStopped ==
    /\ termOut' = Append(termOut, Msg("Playback stopped"))
    /\ ppc' = "finish"
    /\ UNCHANGED fault

\* A SIGINT delivered to the player: in the try statement the
\* KeyboardInterrupt is handled by lines 169-170, elsewhere in play()
\* nothing handles it.
PlayInterrupt ==
    /\ \/ /\ ppc \in PlayTry
          /\ PlayStopped
       \/ /\ ppc \in {"banner", "finish"}
          /\ Fault("KeyboardInterrupt")
          /\ UNCHANGED termOut
    /\ stopped' = TRUE
    /\ UNCHANGED <<cmd, exitStatus, recVars, toolVars, inFile, speed,
                   recording,
                   playLocals>>

\* Line 172.
PlayFinish ==
    /\ ppc = "finish"
    /\ termOut' = Append(termOut, Msg("Playback finished"))
    /\ ppc' = "returned"
    /\ UNCHANGED <<cmd, exitStatus, fault, recVars, toolVars, inFile, speed,
                   recording,
                   playLocals, stopped>>

\* Lines 206-208 and the end of the process: main() handles nothing that
\* play() raises, so the interpreter prints the traceback.
MainPlay ==
    /\ cmd = "play" /\ exitStatus = -1
    /\ \/ /\ ppc = "returned"
          /\ exitStatus' = 0
          /\ UNCHANGED termOut
       \/ /\ ppc = "raised"
          /\ termOut' = Append(termOut, Msg("Traceback"))
          /\ exitStatus' = FaultStatus(fault)
    /\ ppc' = "exited"
    /\ UNCHANGED <<cmd, fault, recVars, toolVars, inFile, speed, recording,
                   playLocals,
                   stopped>>

\* ------------------------------------------------------------------ info
\* f"{x:.2f}" for x = ms / 1000, in hundredths of a second: the nearest
\* to the float x, a tie going to the even one. A float is an exact tie only
\* at an odd number of eighths (0.125 gives 0.12); the elapsed values of
\* the model's files are such values and whole hundredths.
Fmt2(ms) ==
    LET q == ms \div 10
        r == ms % 10
    IN  IF r > 5 \/ (r = 5 /\ q % 2 = 1) THEN q + 1 ELSE q

\* The greatest elapsed value of es.
MaxTime(es) == CHOOSE t \in { es[i].ts : i \in 1..Len(es) } :
                   \A i \in 1..Len(es) : es[i].ts <= t

\* Mutant of DurationOf: the duration is the greatest elapsed value.
DurationOfMax(d) ==
    IF d.evKind \in {"absent", "null"} \/ (d.evKind = "list" /\ d.items = <<>>)
    THEN [err |-> "none", text |-> "0s", cs |-> 0]
    ELSE IF d.evKind = "number"
    THEN [err |-> "TypeError", text |-> "", cs |-> 0]
    ELSE LET e == d.items[Len(d.items)]
         IN  IF e.shape = "scalar"
             THEN [err |-> "TypeError", text |-> "", cs |-> 0]
             ELSE IF e.shape = "badts"
             THEN [err |-> "ValueError", text |-> "", cs |-> 0]
             ELSE [err |-> "none", text |-> "Duration",
                   cs |-> Fmt2(MaxTime(d.items))]

\* Line 218: the Duration line for document d of an object, or the
\* exception its evaluation raises.
DurationOf(d) ==
    IF d.evKind \in {"absent", "null"} \/ (d.evKind = "list" /\ d.items = <<>>)
    THEN [err |-> "none", text |-> "0s", cs |-> 0]
    ELSE IF d.evKind = "number"
    THEN [err |-> "TypeError", text |-> "", cs |-> 0]
    ELSE LET e == d.items[Len(d.items)]
         IN  IF e.shape = "scalar"
             THEN [err |-> "TypeError", text |-> "", cs |-> 0]
             ELSE IF e.shape = "badts"
             THEN [err |-> "ValueError", text |-> "", cs |-> 0]
             ELSE [err |-> "none", text |-> "Duration", cs |-> Fmt2(e.ts)]

\* Line 219: len(recording.get('events', [])), -1 when it raises TypeError.
CountOf(d) ==
    IF d.evKind = "absent" THEN 0
    ELSE IF d.evKind = "list" THEN Len(d.items)
    ELSE -1

\* Lines 212-220: what the try statement of `info` prints before it ends or
\* raises, and the exception raised ("none" when it ends).
InfoBody(f) ==
    IF LoadError(f) # "none" THEN [out |-> <<>>, err |-> LoadError(f)]
    ELSE IF f.doc.top # "object"
    THEN [out |-> <<Msg("File")>>, err |-> "AttributeError"]
    ELSE LET dur == DurationOf(f.doc)
             head == <<Msg("File"), Msg("Version"), Msg("Size")>>
         IN  IF dur.err # "none" THEN [out |-> head, err |-> dur.err]
             ELSE LET line == [k |-> "duration", text |-> dur.text,
                               cs |-> dur.cs]
                  IN  IF CountOf(f.doc) < 0
                      THEN [out |-> Append(head, line), err |-> "TypeError"]
                      ELSE [out |-> head \o <<line,
                                      [k |-> "events", n |-> CountOf(f.doc)],
                                      Msg("Shell")>>,
                            err |-> "none"]

\* The exit status of `info` after exception e was handled by lines
\* 222-223: main() returns.
InfoStatus(e) == 0

\* Lines 210-223: the `info` command; `except Exception` prints the error
\* and main() returns.
MainInfo ==
    /\ cmd = "info" /\ exitStatus = -1
    /\ LET r == InfoBody(inFile)
       IN  /\ termOut' = IF r.err = "none" THEN termOut \o r.out
                         ELSE termOut \o r.out \o <<Msg("Error reading file")>>
           /\ exitStatus' = InfoStatus(r.err)
    /\ ppc' = "exited"
    /\ UNCHANGED <<cmd, fault, recVars, toolVars, inFile, speed, recording,
                   playLocals,
                   stopped>>

\* ------------------------------------------------- fetcher: the watcher
\* The seconds between two attempts (--interval, an int).
Interval == 2

\* The values of --max-attempts (an int, 0 and below meaning no limit).
Limits == -1..(MaxTries - 1)

\* Lines 405-406: the loop test reads the flag; an iteration that it lets
\* start counts as an attempt.
WatchLoop ==
    /\ wpc = "while"
    /\ IF shutdown_flag
       THEN /\ wpc' = "done"
            /\ UNCHANGED attempt
       ELSE /\ attempt < MaxTries
            /\ attempt' = attempt + 1
            /\ wpc' = "limit"
    /\ UNCHANGED <<max_attempts, url_key, remaining, shutdown_flag, fetches,
                   fetched>>
    /\ UNCHANGED <<procVars, recVars, readVars, clipVars>>

\* Mutant of WatchLimit: the limit is reached one attempt late.
WatchLimitLate ==
    /\ wpc = "limit"
    /\ wpc' = IF max_attempts > 0 /\ attempt > max_attempts + 1
              THEN "done" ELSE "fetch"
    /\ UNCHANGED <<max_attempts, url_key, attempt, remaining, shutdown_flag,
                   fetches, fetched>>
    /\ UNCHANGED <<procVars, recVars, readVars, clipVars>>

\* Lines 408-411: the limit of attempts.
WatchLimit ==
    /\ wpc = "limit"
    /\ wpc' = IF max_attempts > 0 /\ attempt > max_attempts
              THEN "done" ELSE "fetch"
    /\ UNCHANGED <<max_attempts, url_key, attempt, remaining, shutdown_flag,
                   fetches, fetched>>
    /\ UNCHANGED <<procVars, recVars, readVars, clipVars>>

\* Lines 415-433: the call of fetch_file, which returns True (the file was
\* downloaded) or False (lines 280-327 turn every failure into False); on
\* True the sound and the notification, then break.
WatchFetch ==
    /\ wpc = "fetch"
    /\ fetches' = fetches + 1
    /\ \/ /\ fetched' = TRUE
          /\ wpc' = "done"
       \/ /\ wpc' = "after"
          /\ UNCHANGED fetched
    /\ UNCHANGED <<max_attempts, url_key, attempt, remaining, shutdown_flag>>
    /\ UNCHANGED <<procVars, recVars, readVars, clipVars>>

\* Lines 435-439: the flag is read again after a failed attempt.
WatchAfter ==
    /\ wpc = "after"
    /\ IF shutdown_flag
       THEN /\ wpc' = "done"
            /\ UNCHANGED remaining
       ELSE /\ wpc' = "wait"
            /\ remaining' = Interval
    /\ UNCHANGED <<max_attempts, url_key, attempt, shutdown_flag, fetches,
                   fetched>>
    /\ UNCHANGED <<procVars, recVars, readVars, clipVars>>

\* Lines 439-446: with a url_key, a countdown of one-second sleeps that the
\* flag ends; without one, a single sleep of the whole interval.
WatchWait ==
    /\ wpc = "wait"
    /\ IF url_key /\ remaining > 0 /\ ~shutdown_flag
       THEN /\ remaining' = remaining - 1
            /\ UNCHANGED wpc
       ELSE /\ wpc' = "while"
            /\ remaining' = IF url_key THEN remaining ELSE 0
    /\ UNCHANGED <<max_attempts, url_key, attempt, shutdown_flag, fetches,
                   fetched>>
    /\ UNCHANGED <<procVars, recVars, readVars, clipVars>>

\* Lines 242-245: the signal handler, in the main thread, sets the flag.
Shutdown ==
    /\ cmd = "watch" /\ ~shutdown_flag
    /\ shutdown_flag' = TRUE
    /\ UNCHANGED <<wpc, max_attempts, url_key, attempt, remaining, fetches,
                   fetched>>
    /\ UNCHANGED <<procVars, recVars, readVars, clipVars>>

\* Lines 398-403: watch_single_url is entered.
InitWatch ==
    /\ wpc = "while"
    /\ max_attempts \in Limits
    /\ url_key \in BOOLEAN
    /\ attempt = 0
    /\ remaining = 0
    /\ shutdown_flag = FALSE
    /\ fetches = 0
    /\ fetched = FALSE

\* The steps of the watcher's thread.
WatchStep ==
    WatchLoop \/ WatchLimit \/ WatchFetch \/ WatchAfter \/ WatchWait

NextWatch == WatchStep \/ Shutdown

\* ------------------------------------------------------------- clipulse
\* What the clipboard can hold: nothing, a blank, and three texts.
Contents == {"", " ", "a", "b", "c"}

\* content.strip() (line 279).
Strip(c) == IF c = " " THEN "" ELSE c

\* hashlib.md5(content.encode()).hexdigest() (line 41): a digest is shared
\* by many contents, here by "b" and "c".
Md5(c) ==
    CASE c = "" -> "d41d"
      [] c = " " -> "7215"
      [] c = "a" -> "0cc1"
      [] OTHER -> "92eb"

\* Lines 36-41: a ClipboardEntry, as the row it is stored as.
Entry(c, t) == [content |-> c, timestamp |-> t, hash |-> Md5(c)]

\* Mutant of add_entry: the hash column is not UNIQUE.
add_entry_any(tbl, e) == [ok |-> TRUE, tbl |-> Append(tbl, e)]

\* Lines 72-87, with the UNIQUE constraint of line 65: the INSERT fails with
\* IntegrityError when a row has the entry's hash, and add_entry returns
\* False; else the row is inserted and it returns True.
add_entry(tbl, e) ==
    IF \E i \in 1..Len(tbl) : tbl[i].hash = e.hash
    THEN [ok |-> FALSE, tbl |-> tbl]
    ELSE [ok |-> TRUE, tbl |-> Append(tbl, e)]

\* Lines 129-135: DELETE FROM clipboard_history.
clear_history(tbl) == <<>>

\* Lines 137-147: DELETE ... WHERE timestamp < cutoff, the cutoff being
\* `minutes` before now.
Kept(r, cutoff) == ~(r.timestamp < cutoff)

expire_old_entries(tbl, minutes, now) ==
    SelectSeq(tbl, LAMBDA r : Kept(r, now - minutes))

\* The configurations (lines 164-183 and the user's config.json): the
\* default one; one with auto_expire enabled and a filter that matches "c";
\* and one whose file has no "notifications" member.
ClipConfigs ==
    { [auto_expire |-> FALSE, minutes |-> 0, ignore |-> {}, broken |-> FALSE],
      [auto_expire |-> TRUE, minutes |-> 1, ignore |-> {"c"},
       broken |-> FALSE],
      [auto_expire |-> FALSE, minutes |-> 0, ignore |-> {}, broken |-> TRUE] }

monLocals == <<clipCfg, clipboard, current_content, last_content, added, today>>

\* Line 277: current_content = pyperclip.paste().
MonPaste ==
    /\ mpc = "paste"
    /\ current_content' = clipboard
    /\ mpc' = "test"
    /\ UNCHANGED <<clipCfg, clipboard, last_content, table, added, today>>
    /\ UNCHANGED <<procVars, recVars, readVars, watchVars>>

\* Lines 279-282 and 296: the test of the content, and the filters; a
\* content that a filter matches is not offered but is remembered.
MonTest ==
    /\ mpc = "test"
    /\ IF current_content # last_content /\ Strip(current_content) # ""
       THEN IF current_content \in clipCfg.ignore
            THEN /\ last_content' = current_content
                 /\ mpc' = "expire"
            ELSE /\ mpc' = "add"
                 /\ UNCHANGED last_content
       ELSE /\ mpc' = "expire"
            /\ UNCHANGED last_content
    /\ UNCHANGED <<clipCfg, clipboard, current_content, table, added, today>>
    /\ UNCHANGED <<procVars, recVars, readVars, watchVars>>

\* Lines 283-285: self.db.add_entry(entry).
MonAdd ==
    /\ mpc = "add"
    /\ LET r == add_entry(table, Entry(current_content, today))
       IN  /\ table' = r.tbl
           /\ added' = <<r.ok>>
    /\ mpc' = "post"
    /\ UNCHANGED <<clipCfg, clipboard, current_content, last_content, today>>
    /\ UNCHANGED <<procVars, recVars, readVars, watchVars>>

\* Lines 286-296, 304-306: after a True, the report, the check for
\* sensitive content (a KeyError when the configuration has no
\* "notifications" member, which `except Exception` handles: the iteration
\* ends there) and the webhook; then self.last_content = current_content.
MonPost ==
    /\ mpc = "post"
    /\ IF added = <<TRUE>> /\ clipCfg.broken
       THEN /\ mpc' = "paste"
            /\ UNCHANGED last_content
       ELSE /\ last_content' = current_content
            /\ mpc' = "expire"
    /\ UNCHANGED <<clipCfg, clipboard, current_content, table, added, today>>
    /\ UNCHANGED <<procVars, recVars, readVars, watchVars>>

\* Lines 299-302: the automatic expiry, and the sleep.
MonExpire ==
    /\ mpc = "expire"
    /\ table' = IF clipCfg.auto_expire
                THEN expire_old_entries(table, clipCfg.minutes, today)
                ELSE table
    /\ mpc' = "paste"
    /\ UNCHANGED monLocals
    /\ UNCHANGED <<procVars, recVars, readVars, watchVars>>

\* Lines 308-310: Ctrl+C stops the monitor.
MonStop ==
    /\ cmd = "clipulse" /\ mpc # "stopped"
    /\ mpc' = "stopped"
    /\ UNCHANGED <<monLocals, table>>
    /\ UNCHANGED <<procVars, recVars, readVars, watchVars>>

\* The positions at which the monitor is about to read the clipboard or
\* the table: what the user and other processes do between two such
\* reads is seen at the next one only.
ClipObserving == {"paste", "add", "expire"}

\* The user copies something.
Copy ==
    /\ mpc = "paste"
    /\ \E c \in Contents \ {clipboard} : clipboard' = c
    /\ UNCHANGED <<mpc, clipCfg, current_content, last_content, table, added,
                   today>>
    /\ UNCHANGED <<procVars, recVars, readVars, watchVars>>

\* A minute passes.
Minute ==
    /\ mpc \in ClipObserving /\ today < MaxMinutes
    /\ today' = today + 1
    /\ UNCHANGED <<mpc, clipCfg, clipboard, current_content, last_content,
                   table, added>>
    /\ UNCHANGED <<procVars, recVars, readVars, watchVars>>

\* Lines 511-512: the `clear` command, in another process.
CliClear ==
    /\ mpc \in ClipObserving /\ table # <<>>
    /\ table' = clear_history(table)
    /\ UNCHANGED <<mpc, monLocals>>
    /\ UNCHANGED <<procVars, recVars, readVars, watchVars>>

\* Lines 552-553: the `expire` command, in another process.
CliExpire ==
    /\ mpc \in ClipObserving
    /\ \E m \in 0..1 : table' = expire_old_entries(table, m, today)
    /\ table' # table
    /\ UNCHANGED <<mpc, monLocals>>
    /\ UNCHANGED <<procVars, recVars, readVars, watchVars>>

\* Lines 190-195, 269-275: the monitor starts, on an empty history.
InitClip ==
    /\ mpc = "paste"
    /\ clipCfg \in ClipConfigs
    /\ clipboard \in Contents
    /\ current_content = ""
    /\ last_content = ""
    /\ table = <<>>
    /\ added = <<>>
    /\ today = 0

NextClip ==
    \/ MonPaste \/ MonTest \/ MonAdd \/ MonPost \/ MonExpire \/ MonStop
    \/ Copy \/ Minute \/ CliClear \/ CliExpire

\* ------------------------------------------------------ specifications
InitRead ==
    /\ inFile \in Files
    /\ speed \in Speeds
    /\ recording = <<>>
    /\ ppc = "start"
    /\ idx = 0
    /\ last_time = 0
    /\ delay = Zero
    /\ slept = Zero
    /\ stopped = FALSE

\* The variables of play and info in a run of `rec`.
IdleRead ==
    /\ inFile = File("missing", Doc("null", "absent", <<>>))
    /\ speed = <<1, 1>>
    /\ recording = <<>>
    /\ ppc = "start"
    /\ idx = 0
    /\ last_time = 0
    /\ delay = Zero
    /\ slept = Zero
    /\ stopped = FALSE

\* The variables of rec in a run of play or info.
IdleRec ==
    /\ rpc = "begin"
    /\ shellArg = "none"
    /\ environ = [SHELL |-> "none", TERM |-> "none"]
    /\ winsize = StartSize
    /\ setback = 0
    /\ orphan = FALSE
    /\ shell = "unbound"
    /\ tty_attr = "cooked"
    /\ old_tty = "unbound"
    /\ master = "unbound" /\ slave = "unbound"
    /\ child = "none"
    /\ stdinBuf = <<>> /\ stdinEof = FALSE /\ ptyBuf = <<>>
    /\ typed = <<>> /\ childOut = <<>>
    /\ ready = {} /\ data = <<>>
    /\ events = <<>>
    /\ clock = 0
    /\ start_time = -1
    /\ header = <<>>
    /\ outFile = FileOf("absent", <<>>)
    /\ exc = NoExc
    /\ ptyIn = <<>>
    /\ restored = FALSE
    /\ transport = -1
    /\ spawnFailed = FALSE
    /\ interrupts = FALSE
    /\ again = FALSE

\* The variables of the URL watcher in a run of another tool.
IdleWatch ==
    /\ wpc = "done"
    /\ max_attempts = 0
    /\ url_key = FALSE
    /\ attempt = 0
    /\ remaining = 0
    /\ shutdown_flag = FALSE
    /\ fetches = 0
    /\ fetched = FALSE

\* The variables of the clipboard monitor in a run of another tool.
IdleClip ==
    /\ mpc = "stopped"
    /\ clipCfg = [auto_expire |-> FALSE, minutes |-> 0, ignore |-> {},
                  broken |-> FALSE]
    /\ clipboard = ""
    /\ current_content = ""
    /\ last_content = ""
    /\ table = <<>>
    /\ added = <<>>
    /\ today = 0

NextRead ==
    \/ PlayStart \/ PlayBanner \/ PlayEnter \/ PlayNext \/ PlaySleep
    \/ PlayEmit \/ PlayInterrupt \/ PlayFinish \/ MainPlay \/ MainInfo

\* A thread runs watch_single_url.
InitWatchCmd == InitProc("watch") /\ IdleRec /\ IdleRead /\ InitWatch /\ IdleClip

\* `clipulse watch` runs.
InitClipCmd ==
    InitProc("clipulse") /\ IdleRec /\ IdleRead /\ IdleWatch /\ InitClip

\* main() is given `rec`.
InitRecCmd == InitProc("rec") /\ InitRec /\ IdleRead /\ IdleWatch /\ IdleClip

\* main() is given `play` or `info`.
InitReadCmd ==
    /\ \E c \in {"play", "info"} : InitProc(c)
    /\ IdleRec /\ InitRead /\ IdleWatch /\ IdleClip

\* The `rec` command.
SpecRec == InitRecCmd /\ [][NextRec]_vars

\* The `play` and `info` commands.
SpecRead == InitReadCmd /\ [][NextRead]_vars

\* The steps of the recorder's own process, as against those of the user,
\* the child and the sender of a signal.
RecStep ==
    \/ RecBegin \/ OpenPty \/ Spawn \/ CloseSlave \/ SetRaw \/ StartHeader
    \/ LoopTest \/ Select \/ StdinIf \/ StdinWrite \/ StdinAppend
    \/ MasterIf \/ MasterWrite \/ MasterAppend
    \/ SaveOpen \/ SaveDump \/ PrintSaved \/ Restore \/ CloseMaster
    \/ MainRec

\* The `rec` command in a process that is scheduled: every call it makes
\* returns (select() after its timeout of 0.1 s at the latest, a read of a
\* descriptor that select() reported at once), so a step of the recorder
\* that stays possible is taken.
SpecRecFair == InitRecCmd /\ [][NextRec]_vars /\ WF_vars(RecStep)

\* A caller other than main() calls record() a second time on the same
\* AsciicastRecorder once the first call has returned: the locals of
\* record() are new, a new pty and a new child are to come, and the
\* attributes of the object (self.events, self.start_time,
\* self.output_file), which only __init__ (lines 20-23) initialises, are
\* as the first call left them. What was typed and not read is still
\* pending on the terminal.
RecordAgain ==
    /\ cmd = "rec" /\ rpc = "returned" /\ ~again
    /\ again' = TRUE
    /\ rpc' = "begin"
    /\ shell' = "unbound" /\ old_tty' = "unbound"
    /\ master' = "unbound" /\ slave' = "unbound"
    /\ child' = "none"
    /\ typed' = stdinBuf /\ childOut' = <<>> /\ ptyBuf' = <<>>
    /\ ptyIn' = <<>>
    /\ ready' = {} /\ data' = <<>>
    /\ header' = <<>>
    /\ restored' = FALSE /\ transport' = -1
    /\ UNCHANGED <<readVars, toolVars>>
    /\ UNCHANGED <<procVars, cfgVars, tty_attr, stdinBuf, stdinEof, events,
                   clock, start_time, outFile, exc, spawnFailed, interrupts>>

NextAgain == NextRec \/ RecordAgain

\* An AsciicastRecorder whose record() is called once or twice.
SpecAgain == InitRecCmd /\ [][NextAgain]_vars

\* The URL watcher in a thread that is scheduled: fetch_file returns (its
\* requests have timeouts) and so do the sleeps.
SpecWatch == InitWatchCmd /\ [][NextWatch]_vars /\ WF_vars(WatchStep)

\* The clipboard monitor, and the `clear` and `expire` commands run beside
\* it.
SpecClip == InitClipCmd /\ [][NextClip]_vars

\* A player, in a later process, loads the file that the session wrote
\* (lines 130-134, with none of the handled errors).
LoadSaved ==
    /\ rpc = "exited" /\ outFile.st = "complete" /\ recording = <<>>
    /\ recording' = <<JsonLoad(outFile.doc[1])>>
    /\ UNCHANGED <<procVars, recVars, toolVars, inFile, speed, ppc,
                   playLocals, stopped>>

NextTrip == NextRec \/ LoadSaved

\* The `rec` command, and a player that loads what it wrote.
SpecTrip == InitRecCmd /\ [][NextTrip]_vars

\* ---------------------------------------------------------------- claims
\* record() has ended: it returned or raised.
RecEnded == rpc \in {"returned", "raised", "exited"}

\* C1: whichever way a recording session ends, the terminal's attributes
\* when record() returns or raises equal those saved at its start. Stated
\* as the claim has it; an interrupt delivered in the finally clause before
\* tcsetattr is called refutes it.
C1_AttributesRestored == RecEnded => tty_attr = old_tty

\* The recording that lines 107-113 write.
Written == FileOf("complete", <<JsonDump(header[1], events)>>)

\* C2: once a read or write of the loop has failed with OSError, the loop
\* has ended and no event is appended any more; the OSError does not
\* propagate (without an interrupt, only a failing open or json.dump of the
\* save makes record() raise); the file that is then written holds exactly
\* the events appended before the failure; and a record() that returns has
\* restored the terminal and closed the master.
C2_TransportErrorEndsSession ==
    transport >= 0 =>
        /\ rpc \notin LoopBody
        /\ Len(events) = transport
        /\ (~interrupts /\ exc # NoExc) => exc.line \in {112, 113}
        /\ (rpc \in {"print_saved", "finally", "close_master", "returned",
                     "exited"} /\ exc = NoExc) => outFile = Written
        /\ (rpc = "returned" /\ ~interrupts) =>
               tty_attr = old_tty /\ restored /\ master = "closed"

\* A session that a transport error ended after at least one event, and
\* that was saved and cleaned up.
C2_Witness ==
    /\ rpc = "returned" /\ transport >= 1 /\ ~interrupts
    /\ outFile = Written /\ Len(outFile.doc[1].events) >= 1
    /\ tty_attr = old_tty

\* C3: when the shell cannot be spawned, the terminal never enters raw
\* mode (its attributes stay the saved ones), no loop runs and nothing
\* touches the output file, record() does not return normally and the
\* process ends with a non-zero status; the spawn error, the unhandled
\* OSError of line 41, is reported only after line 119 has run.
C3_SpawnFailureIsFatal ==
    spawnFailed =>
        /\ tty_attr # RawAttr /\ tty_attr = old_tty
        /\ outFile.st \in {"absent", "old"}
        /\ child = "none" /\ events = <<>> /\ header = <<>>
        /\ rpc \in {"finally", "close_master", "raised", "exited"}
        /\ exitStatus # 0
        /\ fault = "OSError" => (restored /\ exitStatus = 1 /\ exc.line = 41)
        /\ (rpc = "exited" /\ ~interrupts) => fault = "OSError"

\* The spawn error reported, over an existing output file.
C3_Witness ==
    /\ spawnFailed /\ fault = "OSError" /\ exitStatus = 1
    /\ restored /\ outFile.st = "old"

\* The messages with which play and info report an error.
ErrorMsgs == {"Error: Recording file not found",
              "Error: Invalid recording file", "Error reading file"}

ErrorReported ==
    \E i \in 1..Len(termOut) :
        termOut[i].k = "msg" /\ termOut[i].m \in ErrorMsgs

\* Nothing of the playback proper has been written.
NothingPlayed ==
    \A i \in 1..Len(termOut) : termOut[i].k \notin {"clear", "payload"}

NoPayloadWritten ==
    \A i \in 1..Len(termOut) : termOut[i].k # "payload"

\* C4: `play` on a file that is missing, is no JSON or is no decodable text
\* prints an error message and ends with a non-zero status, with no
\* unhandled exception, before the clear-screen sequence or a payload is
\* written. Stated as the claim has it; a file of undecodable bytes
\* refutes it.
C4_PlayRejectsUnparsable ==
    (cmd = "play" /\ ppc = "exited"
     /\ inFile.kind \in {"missing", "notjson", "undecodable"}) =>
        /\ ErrorReported
        /\ exitStatus # 0
        /\ fault = "none"
        /\ NothingPlayed

\* C5: `info` on a file that is missing or does not parse reports an error
\* and ends with a non-zero status. Stated as the claim has it; every such
\* file refutes it.
C5_InfoRejectsUnparsable ==
    (cmd = "info" /\ ppc = "exited"
     /\ inFile.kind \in {"missing", "notjson", "undecodable"}) =>
        /\ ErrorReported
        /\ exitStatus # 0

\* Document d has not the structure of a recording.
Malformed(d) ==
    \/ d.top # "object"
    \/ d.evKind \in {"null", "number"}
    \/ \E i \in 1..Len(d.items) : d.items[i].shape # "triple"

\* C6: `play` and `info` on a JSON file that has not the structure of a
\* recording report a Format error and end with a non-zero status, with no
\* unhandled exception and no payload of the file written. Stated as the
\* claim has it.
C6_MalformedIsFormatError ==
    (cmd \in {"play", "info"} /\ ppc = "exited"
     /\ inFile.kind = "json" /\ Malformed(inFile.doc)) =>
        /\ ErrorReported
        /\ exitStatus # 0
        /\ fault = "none"
        /\ NoPayloadWritten

\* C7: every payload that play() has written is the payload of an event of
\* the file whose kind is "o", never of one whose kind is "i".
C7_OnlyOutputEventsWritten ==
    cmd = "play" =>
        \A i \in 1..Len(termOut) :
            termOut[i].k = "payload" =>
                /\ termOut[i].i \in 1..Len(inFile.doc.items)
                /\ inFile.doc.items[termOut[i].i].kind = "o"
                /\ inFile.doc.items[termOut[i].i].data = termOut[i].d

\* A playback that went through a file with an Input event before an
\* Output event, and wrote a payload.
C7_Witness ==
    /\ cmd = "play" /\ ppc = "returned" /\ idx = 2
    /\ inFile.doc.items[1].kind = "i" /\ inFile.doc.items[2].kind = "o"
    /\ ~NoPayloadWritten

\* The payloads of the Output events of es, in the order of es.
RECURSIVE OutputPayloads(_)
OutputPayloads(es) ==
    IF es = <<>> THEN <<>>
    ELSE (IF Head(es).kind = "o" THEN <<Head(es).data>> ELSE <<>>)
         \o OutputPayloads(Tail(es))

\* The payloads written to the terminal, in the order written.
RECURSIVE PayloadsOf(_)
PayloadsOf(out) ==
    IF out = <<>> THEN <<>>
    ELSE (IF Head(out).k = "payload" THEN <<Head(out).d>> ELSE <<>>)
         \o PayloadsOf(Tail(out))

\* play() went through the whole for loop, uninterrupted.
PlayedThrough ==
    /\ cmd = "play" /\ recording # <<>> /\ ~stopped /\ fault = "none"
    /\ ppc \in {"finish", "returned", "exited"}

\* C8: at every iteration of an uninterrupted playback the payloads written
\* are those of the Output events among the events played so far, in file
\* order; at its end they are those of all the Output events of the file,
\* in file order, whatever the elapsed values.
C8_StoredOrder ==
    /\ (cmd = "play" /\ ppc = "next" /\ ~stopped) =>
           PayloadsOf(termOut)
               = OutputPayloads(SubSeq(inFile.doc.items, 1, idx))
    /\ PlayedThrough => PayloadsOf(termOut) = OutputPayloads(inFile.doc.items)

\* A complete playback of two Output events of different payloads whose
\* elapsed values decrease.
C8_Witness ==
    /\ PlayedThrough /\ Len(inFile.doc.items) = 2
    /\ inFile.doc.items[1].kind = "o" /\ inFile.doc.items[2].kind = "o"
    /\ inFile.doc.items[1].ts > inFile.doc.items[2].ts
    /\ PayloadsOf(termOut) = <<"a", "b">>

\* The event the for loop of play() is at.
Current == inFile.doc.items[idx + 1]

\* C9: with a positive speed, play() is about to sleep only with a positive
\* delay and only for an event whose elapsed value is greater than the
\* previous one's (an event whose elapsed value is not greater is printed
\* without a sleep), and time.sleep never raises: a ValueError comes from
\* unpacking a malformed event only.
C9_NoNegativeSleep ==
    (cmd = "play" /\ speed[1] > 0) =>
        /\ ppc = "sleep" => (RatPos(delay) /\ Current.ts > last_time)
        /\ (ppc = "raised" /\ fault = "ValueError") => Current.shape = "short"

\* The second event, of a smaller elapsed value than the first, is about
\* to be printed and nothing was slept for it.
C9_Witness ==
    /\ cmd = "play" /\ ppc = "emit" /\ idx = 1 /\ ~stopped
    /\ Current.ts < last_time
    /\ Current.kind = "o"
    /\ slept = Rat(inFile.doc.items[1].ts * speed[2], speed[1])

NonDecreasing(es) ==
    \A i \in 1..(Len(es) - 1) : es[i].ts <= es[i + 1].ts

\* C10: after an uninterrupted playback, at a positive speed, of a file
\* whose elapsed values do not decrease, the time spent in time.sleep is
\* the last event's elapsed value divided by the speed (in exact
\* arithmetic), the wait before the first event included.
C10_TotalSleep ==
    (/\ PlayedThrough /\ speed[1] > 0
     /\ inFile.doc.items # <<>> /\ NonDecreasing(inFile.doc.items)) =>
        slept = Rat(inFile.doc.items[Len(inFile.doc.items)].ts * speed[2],
                    speed[1])

\* A playback at speed 2 of events at 1.0 s and 2.5 s: 1.25 s slept.
C10_Witness ==
    /\ PlayedThrough /\ speed = <<2, 1>> /\ ppc = "returned"
    /\ Len(inFile.doc.items) = 2
    /\ inFile.doc.items[1].ts = 1000 /\ inFile.doc.items[2].ts = 2500
    /\ slept = <<1250, 1>>

\* C11: the recording that load_recording reads from a file that record()
\* wrote has the header fields that record() built (version, width, height,
\* timestamp, env) and the events of the log, equal element by element and
\* in the same order.
C11_RoundTrip ==
    recording # <<>> =>
        /\ recording[1].version = header[1].version
        /\ recording[1].width = header[1].width
        /\ recording[1].height = header[1].height
        /\ recording[1].timestamp = header[1].timestamp
        /\ recording[1].env = header[1].env
        /\ Len(recording[1].events) = Len(events)
        /\ \A i \in 1..Len(events) : recording[1].events[i] = events[i]

\* A loaded recording of an Input and an Output event, one of a text with a
\* replacement character and one at a non-zero elapsed time.
C11_Witness ==
    /\ recording # <<>> /\ Len(recording[1].events) = 2
    /\ \E i, j \in 1..2 :
          /\ recording[1].events[i][2] = "i"
          /\ Replacement \in { recording[1].events[i][3][n] :
                                   n \in 1..Len(recording[1].events[i][3]) }
          /\ recording[1].events[j][2] = "o"
          /\ recording[1].events[j][1] > 0

\* Document d has the structure of a recording (the events possibly
\* absent).
WellFormed(d) ==
    /\ d.top = "object" /\ d.evKind \in {"absent", "list"}
    /\ \A i \in 1..Len(d.items) : d.items[i].shape = "triple"

\* The lines of kind k that `info` has printed.
InfoLines(k) == { i \in 1..Len(termOut) : termOut[i].k = k }

\* C12: `info` on a well-formed recording prints one duration line and one
\* count line: the duration is "0s" when there is no event, else the
\* elapsed value of the last stored event to the nearest hundredth of a
\* second; the count is the number of stored events, of both kinds.
C12_InfoReport ==
    (cmd = "info" /\ ppc = "exited"
     /\ inFile.kind = "json" /\ WellFormed(inFile.doc)) =>
        LET es == inFile.doc.items
        IN  /\ Cardinality(InfoLines("duration")) = 1
            /\ Cardinality(InfoLines("events")) = 1
            /\ \A i \in InfoLines("duration") :
                   IF es = <<>>
                   THEN termOut[i].text = "0s"
                   ELSE /\ termOut[i].text = "Duration"
                        /\ Abs(10 * termOut[i].cs - es[Len(es)].ts) <= 5
            /\ \A i \in InfoLines("events") : termOut[i].n = Len(es)
            /\ exitStatus = 0

\* `info` on an Output event at 2.5 s followed by an Input event at 1.0 s:
\* Duration 1.00s, 2 events.
C12_Witness ==
    /\ cmd = "info" /\ ppc = "exited" /\ WellFormed(inFile.doc)
    /\ Len(inFile.doc.items) = 2
    /\ inFile.doc.items[1].ts = 2500 /\ inFile.doc.items[1].kind = "o"
    /\ inFile.doc.items[2].ts = 1000 /\ inFile.doc.items[2].kind = "i"
    /\ \E i \in InfoLines("duration") :
          termOut[i].text = "Duration" /\ termOut[i].cs = 100
    /\ \E i \in InfoLines("events") : termOut[i].n = 2

\* The "stopped" notice of play().
StoppedNotice ==
    \E i \in 1..Len(termOut) : termOut[i] = Msg("Playback stopped")

\* C13: an interrupt delivered while play() is in its loop, about to sleep
\* or to write included, takes play() out of the loop with the "stopped"
\* notice printed and nothing raised; from then on no payload is written,
\* nothing is slept and no event is taken; and unless a further interrupt
\* falls outside the loop, play() returns and the process ends with
\* status 0.
C13_InterruptStopsPlayback ==
    /\ [](StoppedNotice =>
            /\ ppc \in {"finish", "returned", "raised", "exited"}
            /\ termOut[Len(termOut)].k # "payload"
            /\ (ppc = "exited" /\ fault = "none") => exitStatus = 0)
    /\ [][(ppc \in PlayTry /\ ~stopped /\ stopped') =>
              /\ ppc' = "finish" /\ fault' = "none"
              /\ termOut' = Append(termOut, Msg("Playback stopped"))]_vars
    /\ [][StoppedNotice =>
              /\ slept' = slept /\ idx' = idx /\ last_time' = last_time
              /\ \A i \in 1..Len(termOut') :
                     termOut'[i].k = "payload" => i <= Len(termOut)]_vars

\* A playback interrupted at its second event, which was due after a
\* sleep: the first event's payload was written, the second's was not, and
\* the process ended with status 0.
C13_Witness ==
    /\ cmd = "play" /\ ppc = "exited" /\ exitStatus = 0 /\ StoppedNotice
    /\ Len(inFile.doc.items) = 2 /\ idx = 1
    /\ inFile.doc.items[1].kind = "o" /\ inFile.doc.items[2].kind = "o"
    /\ inFile.doc.items[2].ts > inFile.doc.items[1].ts
    /\ Len(PayloadsOf(termOut)) = 1

\* C14: a `rec` command whose record() was interrupted and has restored
\* the terminal ends with status 0 and with no unhandled exception or
\* traceback. Stated as the claim has it; any interrupt in the try
\* statement refutes it.
C14_InterruptIsCleanEnd ==
    (cmd = "rec" /\ interrupts /\ restored /\ rpc = "exited") =>
        /\ exitStatus = 0
        /\ fault = "none"
        /\ \A i \in 1..Len(termOut) : termOut[i] # Msg("Traceback")

\* C15: when record() has ended without an interrupt, the output path holds
\* what it held before (or no file) or the complete recording, never a
\* file opened for writing and not completely written. Stated as the claim
\* has it; a json.dump that fails refutes it.
C15_NoPartialFile ==
    (RecEnded /\ ~interrupts) => outFile.st \in {"absent", "old", "complete"}

\* The chunks of all that a read has returned, pending being those not yet
\* read.
ReadOf(all, pending) == SubSeq(all, 1, Len(all) - Len(pending))

\* The texts of the events of kind k, in log order.
RECURSIVE TextsOf(_, _)
TextsOf(es, k) ==
    IF es = <<>> THEN <<>>
    ELSE (IF Head(es)[2] = k THEN <<Head(es)[3]>> ELSE <<>>)
         \o TextsOf(Tail(es), k)

\* The decoded texts of chunks cs, one per chunk.
DecodedEach(cs) == [i \in 1..Len(cs) |-> Decode(cs[i])]

\* s without its last element.
Front(s) == SubSeq(s, 1, Len(s) - 1)

C17_ElapsedNonDecreasing ==
    /\ \A i \in 1..Len(events) : events[i][1] >= 0
    /\ \A i \in 1..(Len(events) - 1) : events[i][1] <= events[i + 1][1]

\* C18: the step of the loop that finds the child exited (line 71), and
\* the step in which a read of a ready descriptor finds nothing buffered
\* (an empty read or an error), take record() out of the loop. Stated as
\* the claim has it; an empty read refutes it.
C18_LoopEndsOnEndOfStream ==
    [][rpc' # rpc =>
          /\ (rpc = "while" /\ child # "running") => rpc' \notin LoopBody
          /\ (rpc = "stdin_if" /\ "stdin" \in ready /\ stdinBuf = <<>>) =>
                 rpc' \notin LoopBody
          /\ (rpc = "master_if" /\ "master" \in ready /\ ptyBuf = <<>>) =>
                 rpc' \notin LoopBody]_vars

\* The header that json.load reads from the file record() wrote.
SavedHeader == JsonLoad(outFile.doc[1])

\* The shell that record() launches: the --shell argument, else SHELL, else
\* the default.
Launched ==
    IF shellArg # "none" THEN shellArg
    ELSE IF environ.SHELL # "none" THEN environ.SHELL
    ELSE "/bin/bash"

\* The terminal type at the start: TERM, else the default.
TermAtStart ==
    IF environ.TERM # "none" THEN environ.TERM ELSE "xterm-256color"

C20_RestoredThenReleased ==
    /\ master = "closed" => restored
    /\ (RecEnded /\ ~interrupts) => (master # "open" /\ slave # "open")

\* The chunks relayed to the real terminal, in the order written.
RECURSIVE RelayedOf(_)
RelayedOf(out) ==
    IF out = <<>> THEN <<>>
    ELSE (IF Head(out).k = "relay" THEN <<Head(out).c>> ELSE <<>>)
         \o RelayedOf(Tail(out))

Persisted ==
    /\ rpc \in {"returned", "exited"}
    /\ header # <<>> /\ outFile = Written
    /\ restored /\ tty_attr = old_tty

\* C22: once the child has exited no new iteration of the loop is started;
\* the loop is left, whether or not a descriptor is ever ready again; and
\* then, unless an interrupt arrives or the save fails, the recording is
\* persisted and the terminal restored.
C22_LoopEndsAfterChildExit ==
    /\ [][(child = "exited" /\ rpc' = "select") => rpc = "select"]_vars
    /\ (child = "exited") ~> (rpc \notin LoopBody)
    /\ (child = "exited") ~> (Persisted \/ interrupts \/ exc # NoExc)

\* The child has exited leaving a process on the pty, nothing was typed,
\* and select() has returned with no descriptor ready.
C22_Witness ==
    /\ rpc = "stdin_if" /\ child = "exited" /\ orphan
    /\ stdinBuf = <<>> /\ ~stdinEof /\ ptyBuf = <<>>
    /\ ready = {}

\* C23, as amended: play() takes any speed. With a negative speed a
\* forward step in time gives a negative delay, which is not slept: a wait
\* happens at a backward step only, so an uninterrupted playback of a file
\* whose elapsed values do not decrease sleeps nothing and writes all the
\* Output payloads. With speed zero the division of line 159 raises
\* ZeroDivisionError at the first event: nothing is slept and no payload is
\* written, and the playback of a well-formed file with an event ends with
\* that exception unhandled and status 1 (with no event it ends normally).
C23_UnvalidatedSpeed ==
    cmd = "play" =>
        /\ speed[1] < 0 =>
               /\ ppc = "sleep" => (RatPos(delay) /\ Current.ts < last_time)
               /\ (PlayedThrough /\ NonDecreasing(inFile.doc.items)) =>
                      /\ slept = Zero
                      /\ PayloadsOf(termOut) = OutputPayloads(inFile.doc.items)
        /\ speed[1] = 0 =>
               /\ slept = Zero /\ NoPayloadWritten
               /\ ppc \notin {"sleep", "emit"}
               /\ (/\ ppc = "exited" /\ ~stopped
                   /\ inFile.kind = "json" /\ WellFormed(inFile.doc)) =>
                      IF inFile.doc.items = <<>>
                      THEN fault = "none" /\ exitStatus = 0
                      ELSE fault = "ZeroDivisionError" /\ exitStatus = 1

\* A complete playback at speed -1 of two Output events, at 1.0 s and at
\* 2.5 s: both payloads written and nothing slept.
C23_Witness ==
    /\ PlayedThrough /\ speed = <<-1, 1>> /\ ppc = "returned"
    /\ Len(inFile.doc.items) = 2
    /\ inFile.doc.items[1].kind = "o" /\ inFile.doc.items[1].ts = 1000
    /\ inFile.doc.items[2].kind = "o" /\ inFile.doc.items[2].ts = 2500
    /\ slept = Zero
    /\ Len(PayloadsOf(termOut)) = 2

\* C23 as the claim has it: with speed zero the division gives an infinite
\* delay and the playback does not fail.
C23_ZeroSpeedIsNoFailure ==
    (cmd = "play" /\ speed[1] = 0) =>
        /\ fault # "ZeroDivisionError"
        /\ (ppc = "exited" /\ ~stopped /\ inFile.kind = "json"
            /\ WellFormed(inFile.doc)) => exitStatus = 0

\* The elapsed value of the stored event before event n + 1, of either
\* kind; 0 before the first.
Preceding(es, n) == IF n = 0 THEN 0 ELSE es[n].ts

\* The time waited for the first n events of es at speed sp: for each
\* event its distance in time from the stored event before it, divided by
\* the speed, when that is positive.
RECURSIVE WaitedFor(_, _, _)
WaitedFor(es, n, sp) ==
    IF n = 0 THEN Zero
    ELSE LET w == Rat((es[n].ts - Preceding(es, n - 1)) * sp[2], sp[1])
         IN  IF RatPos(w) THEN RatAdd(WaitedFor(es, n - 1, sp), w)
             ELSE WaitedFor(es, n - 1, sp)

\* C24: while play() goes through the events uninterrupted, last_time is 0
\* before the first event and then the elapsed value of the stored event
\* just played, Input or Output; the delay computed for an event, times
\* the speed, is its distance from that preceding event; and the time
\* slept so far is the sum of the positive delays of the events so far,
\* those of the Input events included and none counted twice.
C24_DelayFromPrecedingEvent ==
    (/\ cmd = "play" /\ recording # <<>> /\ ~stopped /\ fault = "none"
     /\ ppc \in {"next", "sleep", "emit"}) =>
        LET es == inFile.doc.items
        IN  /\ last_time = Preceding(es, idx)
            /\ ppc \in {"sleep", "emit"} =>
                   delay[1] * speed[1]
                       = (Current.ts - Preceding(es, idx)) * delay[2] * speed[2]
            /\ slept = WaitedFor(es, IF ppc = "emit" THEN idx + 1 ELSE idx,
                                 speed)

\* An Input event at 1.0 s was waited for and not written, and play() is
\* about to sleep the 1.5 s from it to the Output event at 2.5 s.
C24_Witness ==
    /\ cmd = "play" /\ ppc = "sleep" /\ idx = 1 /\ ~stopped
    /\ speed = <<1, 1>> /\ Len(inFile.doc.items) = 2
    /\ inFile.doc.items[1].kind = "i" /\ inFile.doc.items[1].ts = 1000
    /\ inFile.doc.items[2].kind = "o" /\ inFile.doc.items[2].ts = 2500
    /\ slept = <<1000, 1>> /\ delay = <<1500, 1>>
    /\ NoPayloadWritten

\* C25: when the loop has ended after the child's exit, with no transport
\* error and no interrupt, every chunk that the child wrote has been read
\* from the master, relayed to the terminal and logged as an Output event.
\* Stated as the claim has it; a child that writes and exits between two
\* evaluations of line 71 refutes it.
C25_NoOutputLost ==
    (/\ child = "exited" /\ rpc \notin LoopBody
     /\ ~interrupts /\ transport = -1) =>
        /\ ptyBuf = <<>>
        /\ RelayedOf(termOut) = childOut
        /\ TextsOf(events, "o") = DecodedEach(childOut)

\* C26: the recording written by a second call of record() on the same
\* recorder holds no more events than the chunks read in that second
\* session, and (the clock not being set back) its elapsed values do not
\* decrease. Stated as the claim has it; any first session with an event
\* refutes it.
C26_OwnSessionOnly ==
    (again /\ rpc = "returned" /\ outFile.st = "complete") =>
        LET saved == JsonLoad(outFile.doc[1]).events
        IN  /\ Len(saved) <= Len(ReadOf(typed, stdinBuf))
                                + Len(ReadOf(childOut, ptyBuf))
            /\ setback = 0 =>
                   \A i \in 1..(Len(saved) - 1) : saved[i][1] <= saved[i + 1][1]

\* C27: with max_attempts = N > 0 fetch_file is called at most N times and
\* watch_single_url ends; whatever max_attempts, fetch_file is not called
\* again once a call has returned True, and no iteration is started once
\* the shutdown flag is set; with no limit (max_attempts = 0 or less) it
\* ends only on a success or on shutdown.
C27_WatcherAttempts ==
    /\ [](max_attempts > 0 => fetches <= max_attempts)
    /\ (max_attempts > 0) ~> (wpc = "done")
    /\ [](fetched => wpc = "done")
    /\ [][fetched => fetches' = fetches]_vars
    /\ [][shutdown_flag => attempt' = attempt]_vars
    /\ []((wpc = "done" /\ max_attempts <= 0 /\ cmd = "watch") =>
              (fetched \/ shutdown_flag))

\* With max_attempts = 2 the watcher has ended after two failed calls of
\* fetch_file, with no shutdown.
C27_Witness ==
    /\ cmd = "watch" /\ wpc = "done" /\ max_attempts = 2
    /\ fetches = 2 /\ attempt = 3
    /\ ~fetched /\ ~shutdown_flag

NoDupHash(tbl) ==
    \A i, j \in 1..Len(tbl) : i # j => tbl[i].hash # tbl[j].hash

HasHash(tbl, h) == \E i \in 1..Len(tbl) : tbl[i].hash = h

====
